---- MODULE Spec2Model ----
(***************************************************************************)
(* Model of renovate-git-history-action: parseTable and                    *)
(* getGitHistoryDescription (util.ts) and the driver run() (main.ts).      *)
(* getGitHistoryDescription is the implementation that runs git through    *)
(* @actions/exec inside try ... finally; the sources also hold an older    *)
(* variant on simple-git, which is not modelled.                           *)
(*                                                                         *)
(* Text is modelled as a sequence of atoms.  An atom is a piece of text    *)
(* that none of the operations below ever has to look inside ("Package",   *)
(* "github.com", "|", " ", "\n", one hex digit ...).  The JavaScript       *)
(* string operations the code uses (indexOf, substring, split, trim,       *)
(* toLowerCase, match, replace, includes) are defined on such sequences    *)
(* with their JavaScript semantics.                                        *)
(***************************************************************************)
EXTENDS Integers, Sequences, FiniteSets

(***************************************************************************)
(* Bounds of the model.                                                    *)
(***************************************************************************)
\* largest number of data rows of a table handed to parseTable alone
MaxRows == 2
\* largest number of data rows of the pull-request body the driver reads
MaxRecords == 2

(***************************************************************************)
(* JavaScript string operations on sequences of atoms.                     *)
(***************************************************************************)
Min(a, b) == IF a < b THEN a ELSE b
Max(a, b) == IF a > b THEN a ELSE b

\* The sequence with the elements of f, a function on 1..n, written out.
AsSeq(f) == f \o <<>>

\* The atoms of s at positions a..b (1-based) that exist.
Sub(s, a, b) ==
  IF Max(a, 1) > Min(b, Len(s)) THEN <<>> ELSE SubSeq(s, Max(a, 1), Min(b, Len(s)))

\* Is the atom white space (what JavaScript's trim and \s strip)?
IsSpace(a) == a \in {" ", "\t", "\n"}

\* String.prototype.toLowerCase on one atom: the atoms that have upper-case
\* letters in the inputs of the model, every other atom is its own lower case.
LowerAtom(a) ==
  CASE a = "Package" -> "package"
    [] a = "PACKAGE" -> "package"
    [] a = "Update" -> "update"
    [] a = "Change" -> "change"
    [] a = "Digest" -> "digest"
    [] a = "Renovate" -> "renovate"
    [] a = "Extra" -> "extra"
    [] a = "A" -> "a"
    [] OTHER -> a

ToLowerCase(s) == AsSeq([i \in 1..Len(s) |-> LowerAtom(s[i])])

\* Does needle occur in s at 0-based position i?
OccursAt(s, needle, i) ==
  /\ i >= 0
  /\ i + Len(needle) <= Len(s)
  /\ \A k \in 1..Len(needle) : s[i + k] = needle[k]

\* s.indexOf(needle, from): least 0-based position >= from where needle occurs,
\* -1 when there is none.
IndexOfFrom(s, needle, from) ==
  LET hits == {i \in Max(from, 0)..(Len(s) - Len(needle)) : OccursAt(s, needle, i)}
  IN IF hits = {} THEN -1 ELSE CHOOSE i \in hits : \A j \in hits : i <= j

IndexOf(s, needle) == IndexOfFrom(s, needle, 0)

Includes(s, needle) == IndexOf(s, needle) # -1

\* s.substring(a, b): a negative argument counts as 0, an argument beyond the
\* end as the length, and the two are swapped when the first is the larger.
Substring(s, a, b) ==
  LET ca == Min(Max(a, 0), Len(s))
      cb == Min(Max(b, 0), Len(s))
      lo == Min(ca, cb)
      hi == Max(ca, cb)
  IN SubSeq(s, lo + 1, hi)

\* s.split(sep) for a one-atom separator: the pieces between the occurrences
\* of the separator, always at least one piece.
Split(s, sep) ==
  LET seps == {i \in 1..Len(s) : s[i] = sep}
      n == Cardinality(seps)
      pos(k) == IF k = 0 THEN 0
                ELSE IF k = n + 1 THEN Len(s) + 1
                ELSE CHOOSE p \in seps : Cardinality({q \in seps : q < p}) = k - 1
  IN AsSeq([k \in 1..(n + 1) |-> Sub(s, pos(k - 1) + 1, pos(k) - 1)])

\* pieces.join(sep)
RECURSIVE Join(_, _)
Join(pieces, sep) ==
  IF Len(pieces) = 0 THEN <<>>
  ELSE IF Len(pieces) = 1 THEN pieces[1]
  ELSE pieces[1] \o <<sep>> \o Join(Tail(pieces), sep)

RECURSIVE TrimStart(_)
TrimStart(s) ==
  IF Len(s) > 0 /\ IsSpace(s[1]) THEN TrimStart(Tail(s)) ELSE s

RECURSIVE TrimEnd(_)
TrimEnd(s) ==
  IF Len(s) > 0 /\ IsSpace(s[Len(s)]) THEN TrimEnd(SubSeq(s, 1, Len(s) - 1)) ELSE s

Trim(s) == TrimEnd(TrimStart(s))

\* n copies of atom a
Repeat(a, n) == AsSeq([i \in 1..n |-> a])

\* arr.slice(from) with from >= 0 (0-based)
Slice(arr, from) == SubSeq(arr, from + 1, Len(arr))

(***************************************************************************)
(* parseTable                                                              *)
(***************************************************************************)
\* An optional field of PackageUpdate: <<>> is undefined, <<s>> holds text s.
Undefined == <<>>
Some(s) == <<s>>
IsDefined(opt) == Len(opt) > 0

\* The text /\| Package \| Update \| Change \|/ matches, letter case apart.
headerText ==
  <<"|", " ", "Package", " ", "|", " ", "Update", " ", "|", " ", "Change", " ", "|">>

\* body.match(headerRegex) with the i flag: the text of the leftmost match as
\* Some(text), Undefined when nothing matches.
HeaderMatch(body) ==
  LET i == IndexOf(ToLowerCase(body), ToLowerCase(headerText))
  IN IF i = -1 THEN Undefined ELSE Some(SubSeq(body, i + 1, i + Len(headerText)))

\* row.split("|").map(s => s.trim())
SplitCells(row) ==
  LET cells == Split(row, "|")
  IN AsSeq([i \in 1..Len(cells) |-> Trim(cells[i])])

\* body.indexOf(table[0])
TableStart(body, table) == IndexOf(body, table[1])

\* body.indexOf("\n\n", tableStart)
TableEnd(body, tableStart) == IndexOfFrom(body, <<"\n", "\n">>, tableStart)

\* body.substring(tableStart, tableEnd).split("\n")
TableRows(body) ==
  LET tableStart == TableStart(body, HeaderMatch(body))
      tableEnd == TableEnd(body, tableStart)
  IN Split(Substring(body, tableStart, tableEnd), "\n")

\* tableRows[0].split("|").map(s => s.trim())
TableHeader(tableRows) == SplitCells(tableRows[1])

\* tableRows.slice(2).map(row => row.split("|").map(s => s.trim()))
TableData(tableRows) ==
  LET rows == Slice(tableRows, 2)
  IN AsSeq([i \in 1..Len(rows) |-> SplitCells(rows[i])])

emptyUpdate == [package |-> Undefined, update |-> Undefined, change |-> Undefined]

\* One pass of the inner loop: cell i (1-based here) of the row goes to the
\* field its column header names; any other header leaves the update alone.
AssignCell(update, header, value) ==
  IF header = <<"package">> THEN [update EXCEPT !.package = Some(value)]
  ELSE IF header = <<"update">> THEN [update EXCEPT !.update = Some(value)]
  ELSE IF header = <<"change">> THEN [update EXCEPT !.change = Some(value)]
  ELSE update

\* The inner loop from cell i on.  tableHeader[i] is undefined past the end of
\* the header row, and undefined.toLowerCase() throws a TypeError.
RECURSIVE RowToUpdate(_, _, _, _)
RowToUpdate(update, tableHeader, row, i) ==
  IF i > Len(row) THEN [kind |-> "ok", val |-> update]
  ELSE IF i > Len(tableHeader) THEN [kind |-> "throw", val |-> update]
  ELSE RowToUpdate(AssignCell(update, ToLowerCase(tableHeader[i]), row[i]),
                   tableHeader, row, i + 1)

\* The outer loop: the updates of all rows, or the first throw.
RECURSIVE RowsToUpdates(_, _)
RowsToUpdates(tableHeader, tableData) ==
  IF Len(tableData) = 0 THEN [kind |-> "ok", val |-> <<>>]
  ELSE LET first == RowToUpdate(emptyUpdate, tableHeader, tableData[1], 1)
           rest == RowsToUpdates(tableHeader, Tail(tableData))
       IN IF first.kind = "throw" THEN [kind |-> "throw", val |-> <<>>]
          ELSE IF rest.kind = "throw" THEN rest
          ELSE [kind |-> "ok", val |-> <<first.val>> \o rest.val]

\* update.update === "digest"
IsAnyUpdate(update) == IsDefined(update.update)

IsDigestUpdate(update) == update.update = Some(<<"digest">>)

\* [0-9a-f]
IsHex(a) ==
  a \in {"0", "1", "2", "3", "4", "5", "6", "7", "8", "9", "a", "b", "c", "d", "e", "f"}

\* {7,40}
MinShaLen == 7
MaxShaLen == 40

\* Length of the longest run of hex digits that starts at position p (1-based).
RECURSIVE HexRun(_, _)
HexRun(s, p) ==
  IF p <= Len(s) /\ IsHex(s[p]) THEN 1 + HexRun(s, p + 1) ELSE 0

\* The atom that stands for the back-tick character.
backtick == "<backtick>"

\* The text between the two hashes.
arrowText == <<backtick, " ", "->", " ", backtick>>

\* /`([0-9a-f]{7,40})` -> `([0-9a-f]{7,40})`/ tried at position p.  A hash is
\* followed by a back-tick, which is no hex digit, so the only length the
\* quantifier can settle on is that of the whole run of hex digits.
ShaMatchAt(s, p) ==
  LET n1 == HexRun(s, p + 1)
      q == p + 1 + n1
      n2 == HexRun(s, q + Len(arrowText))
      r == q + Len(arrowText) + n2
  IN IF /\ p <= Len(s) /\ s[p] = backtick
        /\ n1 >= MinShaLen /\ n1 <= MaxShaLen
        /\ Sub(s, q, q + Len(arrowText) - 1) = arrowText
        /\ n2 >= MinShaLen /\ n2 <= MaxShaLen
        /\ r <= Len(s) /\ s[r] = backtick
     THEN Some([oldSha |-> SubSeq(s, p + 1, q - 1),
                newSha |-> SubSeq(s, q + Len(arrowText), r - 1)])
     ELSE Undefined

\* change.match(changeShaRegex): the leftmost match, or Undefined.
ChangeShaMatch(change) ==
  LET hits == {p \in 1..Len(change) : IsDefined(ShaMatchAt(change, p))}
  IN IF hits = {} THEN Undefined
     ELSE ShaMatchAt(change, CHOOSE p \in hits : \A o \in hits : p <= o)

\* The last loop: a digest update without package or change text (undefined
\* or empty), or whose change text has no pair of hashes, is skipped.
RECURSIVE ToGitUpdates(_)
ToGitUpdates(digestUpdates) ==
  IF Len(digestUpdates) = 0 THEN <<>>
  ELSE LET update == digestUpdates[1]
           rest == ToGitUpdates(Tail(digestUpdates))
       IN IF \/ ~IsDefined(update.package) \/ Len(update.package[1]) = 0
             \/ ~IsDefined(update.change) \/ Len(update.change[1]) = 0
          THEN rest
          ELSE LET changeSha == ChangeShaMatch(update.change[1])
               IN IF ~IsDefined(changeSha) THEN rest
                  ELSE <<[url |-> update.package[1],
                          oldSha |-> changeSha[1].oldSha,
                          newSha |-> changeSha[1].newSha]>> \o rest

\* parseTable(body): [kind |-> "null"], [kind |-> "ok", val |-> gitUpdates],
\* or [kind |-> "throw"] when the promise is rejected with the TypeError.
parseTable(body) ==
  IF ~IsDefined(HeaderMatch(body)) THEN [kind |-> "null", val |-> <<>>]
  ELSE LET tableRows == TableRows(body)
           updates == RowsToUpdates(TableHeader(tableRows), TableData(tableRows))
       IN IF updates.kind = "throw" THEN [kind |-> "throw", val |-> <<>>]
          ELSE [kind |-> "ok",
                val |-> ToGitUpdates(SelectSeq(updates.val, IsDigestUpdate))]

(***************************************************************************)
(* getGitHistoryDescription: the text it computes.                         *)
(***************************************************************************)
\* s.replace(/X$/, "") for a one-atom X: s without its last atom when that is X.
StripSuffix(s, suffix) ==
  IF Len(s) > 0 /\ s[Len(s)] = suffix THEN SubSeq(s, 1, Len(s) - 1) ELSE s

\* gitUpdate.url.replace(/\/$/, "").replace(/\.git$/, "")
KeepUrl(url) == url

NormalizeUrl(url) == StripSuffix(StripSuffix(url, "/"), ".git")

FailedToGetGitLogMsg(error) == <<"Failed to get git log: ">> \o error

FailedToCloneMsg(url, error) == <<"Failed to clone ">> \o url \o <<": ">> \o error

FailedLongShaMsg(oldSha, error) ==
  <<"Failed to get long sha for ">> \o oldSha \o <<": ">> \o error

\* parts[i] (0-based) in a template literal: a missing part prints as undefined.
Part(parts, i) == IF i < Len(parts) THEN parts[i + 1] ELSE <<"undefined">>

\* One line of the log as a GitEntry.
GitEntry(line) ==
  LET parts == Split(line, " ")
  IN [hash |-> Part(parts, 0), shortHash |-> Part(parts, 1), date |-> Part(parts, 2),
      email |-> Part(parts, 3), subject |-> Join(Slice(parts, 4), " ")]

\* stdout.split("\n").filter(line => line.length > 0), each line as a GitEntry
NonEmpty(line) == Len(line) > 0

GitEntries(logOut) ==
  LET log == SelectSeq(Split(logOut, "\n"), NonEmpty)
  IN AsSeq([i \in 1..Len(log) |-> GitEntry(log[i])])

\* The host dispatch: diffDescription, diffLink, clickableLink, isClickable.
GooglesourceFirstFormat(url, oldSha, newSha, oldShortSha, newShortSha, oldLongSha, newLongSha) ==
  IF Includes(url, <<"googlesource.com">>)
  THEN [diffDescription |-> url \o <<"/+log/">> \o oldShortSha \o <<"..">> \o newShortSha,
        diffLink |-> url \o <<"/+log/">> \o oldLongSha \o <<"..">> \o newLongSha,
        clickableLink |-> url \o <<"/+/">>,
        isClickable |-> TRUE]
  ELSE IF Includes(url, <<"github.com">>)
  THEN [diffDescription |-> url \o <<"/compare/">> \o oldShortSha \o <<"...">> \o newShortSha,
        diffLink |-> url \o <<"/compare/">> \o oldLongSha \o <<"...">> \o newLongSha,
        clickableLink |-> url \o <<"/commit/">>,
        isClickable |-> TRUE]
  ELSE [diffDescription |-> url \o <<" ">> \o oldSha \o <<"..">> \o newSha,
        diffLink |-> <<>>,
        clickableLink |-> <<>>,
        isClickable |-> FALSE]

HostFormat(url, oldSha, newSha, oldShortSha, newShortSha, oldLongSha, newLongSha) ==
  IF Includes(url, <<"github.com">>)
  THEN [diffDescription |-> url \o <<"/compare/">> \o oldShortSha \o <<"...">> \o newShortSha,
        diffLink |-> url \o <<"/compare/">> \o oldLongSha \o <<"...">> \o newLongSha,
        clickableLink |-> url \o <<"/commit/">>,
        isClickable |-> TRUE]
  ELSE IF Includes(url, <<"googlesource.com">>)
  THEN [diffDescription |-> url \o <<"/+log/">> \o oldShortSha \o <<"..">> \o newShortSha,
        diffLink |-> url \o <<"/+log/">> \o oldLongSha \o <<"..">> \o newLongSha,
        clickableLink |-> url \o <<"/+/">>,
        isClickable |-> TRUE]
  ELSE [diffDescription |-> url \o <<" ">> \o oldSha \o <<"..">> \o newSha,
        diffLink |-> <<>>,
        clickableLink |-> <<>>,
        isClickable |-> FALSE]

\* The line of one entry in the details block.
EntryLine(clickableLink, entry) ==
  IF Len(clickableLink) > 0
  THEN <<"[">> \o entry.shortHash \o <<"](">> \o clickableLink \o entry.hash \o <<") ">>
       \o entry.date \o <<" ">> \o entry.email \o <<" ">> \o entry.subject \o <<"\n">>
  ELSE entry.shortHash \o <<" ">> \o entry.date \o <<" ">> \o entry.email \o <<" ">>
       \o entry.subject \o <<"\n">>

RECURSIVE EntryLines(_, _)
EntryLines(clickableLink, gitEntries) ==
  IF Len(gitEntries) = 0 THEN <<>>
  ELSE EntryLine(clickableLink, gitEntries[1]) \o EntryLines(clickableLink, Tail(gitEntries))

\* resultString of a call whose git invocations all succeeded.
ResultString(r, logOut) ==
  LET f == HostFormat(r.url, r.oldSha, r.newSha, r.oldShortSha, r.newShortSha,
                      r.oldLongSha, r.newLongSha)
  IN (IF f.isClickable
      THEN <<"- [">> \o f.diffDescription \o <<"](">> \o f.diffLink \o <<")", "\n", "\n">>
      ELSE <<"- ">> \o f.diffDescription \o <<"\n", "\n">>)
     \o <<"<details><summary>Details</summary>", "\n", "\n">>
     \o EntryLines(f.clickableLink, GitEntries(logOut))
     \o <<"</details>", "\n", "\n">>

(***************************************************************************)
(* The git executable, as far as the code depends on it.                   *)
(***************************************************************************)
\* What `${error}` gives for a failed git invocation.
GitErrors ==
  {<<"Error: The process '/usr/bin/git' failed with exit code 128">>,
   <<"Error: The process '/usr/bin/git' failed with exit code 1">>}

\* stdout of git rev-parse <sha>: the full name of the commit, of MaxShaLen
\* hex digits, which the given hash abbreviates.
RevParseOut(sha) == sha \o Repeat("0", MaxShaLen - Len(sha)) \o <<"\n">>

\* stdout of git rev-parse --short <sha>: its first MinShaLen hex digits.
RevParseShortOut(sha) == Sub(sha, 1, MinShaLen) \o <<"\n">>

\* stdout of git log --date=format:%Y-%m-%d --format="%H %h %ad %ae %s": no
\* commit in the range, or two, newest first.
LogOutputs ==
  {<<>>,
   <<"c2c2c2c2", " ", "c2c2", " ", "2023-05-06", " ", "bob@example.com", " ",
     "Fix", " ", "the", " ", "parser", "\n",
     "c1c1c1c1", " ", "c1c1", " ", "2023-05-05", " ", "alice@example.com", " ",
     "Initial", "\n">>}

(***************************************************************************)
(* Inputs: pull-request bodies, written as the lines they consist of.      *)
(***************************************************************************)
\* A markdown table line with the given cells: "| c1 | c2 | ... |".
RECURSIVE MdCells(_)
MdCells(cells) ==
  IF Len(cells) = 0 THEN <<>>
  ELSE <<" ">> \o cells[1] \o <<" ", "|">> \o MdCells(Tail(cells))

MdRow(cells) == <<"|">> \o MdCells(cells)

\* The change cell renovate writes for a digest update.
ChangeCell(old, new) == <<backtick>> \o old \o arrowText \o new \o <<backtick>>

githubUrl == <<"https://", "github.com", "/acme/lib">>
githubGitUrl == <<"https://", "github.com", "/acme/lib", ".git", "/">>
googlesourceUrl == <<"https://", "chromium.", "googlesource.com", "/src">>
otherUrl == <<"https://", "gitlab.com", "/acme/lib", "/">>
bothUrl == <<"https://", "github.com", ".", "googlesource.com", "/x", ".git">>

sha7a == Repeat("1", MinShaLen)
sha7b == Repeat("2", MinShaLen)
sha8a == <<"a", "b", "c", "1", "2", "3", "4", "5">>
sha8b == <<"d", "e", "f", "5", "6", "7", "8", "9">>
sha6 == Repeat("3", MinShaLen - 1)
sha40 == Repeat("4", MaxShaLen)
sha41 == Repeat("5", MaxShaLen + 1)

digest == <<"digest">>

headerLine == headerText
lowerHeaderLine == ToLowerCase(headerText)
extraHeaderLine == headerText \o <<" ", "Extra", " ", "|">>
denseHeaderLine == <<"|", "Package", "|", "Update", "|", "Change", "|">>
separatorLine == <<"|", "---", "|", "---", "|", "---", "|">>
renovateLine == <<"This", " ", "PR", " ", "was", " ", "generated", " ", "by", " ", "Renovate", " ", "Bot">>
proseLine == <<"This", " ", "PR", " ", "contains", " ", "the", " ", "following", " ", "updates:">>

goodRow == MdRow(<<githubUrl, digest, ChangeCell(sha7a, sha7b)>>)
longRow == MdRow(<<googlesourceUrl, digest, <<"see", " ">> \o ChangeCell(sha40, sha8b) \o <<" ", "now">> >>)
pinRow == MdRow(<<otherUrl, <<"pin">>, ChangeCell(sha8a, sha8b)>>)
versionRow == MdRow(<<otherUrl, digest, <<"1.0", " ", "->", " ", "2.0">> >>)
shortShaRow == MdRow(<<githubUrl, digest, ChangeCell(sha6, sha7b)>>)
longShaRow == MdRow(<<githubUrl, digest, ChangeCell(sha7a, sha41)>>)
noPackageRow == MdRow(<<<<>>, digest, ChangeCell(sha8a, sha8b)>>)
extraCellRow == MdRow(<<bothUrl, digest, ChangeCell(sha8a, sha7b), <<"note">> >>)
fewCellsRow == <<"|", " ">> \o githubUrl \o <<" ", "|", " ", "digest">>

\* The data rows of the bodies handed to parseTable alone.
ParseRowLines ==
  {goodRow, longRow, pinRow, versionRow, shortShaRow, longShaRow, noPackageRow,
   extraCellRow, fewCellsRow}

\* All sequences over S of length at most n.
SeqsUpTo(S, n) == UNION {[1..k -> S] : k \in 0..n}

\* A body: the lines before the header line (if any), the header line, the
\* separator, the data rows, and what follows the last data row.
BodyOf(before, header, rows, after) ==
  Join(before \o <<header, separatorLine>> \o rows \o after, "\n")

\* Bodies handed to parseTable alone: with the header in several spellings
\* or with a look-alike that is no header, with text before it (prose, a
\* table row, or a whole table under a heading the header regex does not
\* match), and with or without a blank line after the last row.
ParseBodies ==
  {BodyOf(before, header, rows, after) :
     before \in {<<>>, <<proseLine, <<>> >>, <<goodRow>>},
     header \in {headerLine, lowerHeaderLine, extraHeaderLine, denseHeaderLine},
     rows \in SeqsUpTo(ParseRowLines, MaxRows),
     after \in {<<>>, << <<>>, <<>> >>, << <<>>, goodRow, <<>>, <<>> >>}}
  \cup {BodyOf(<<denseHeaderLine, separatorLine, longRow>>, headerLine, rows, after) :
          rows \in SeqsUpTo(ParseRowLines, MaxRows),
          after \in {<<>>, << <<>>, <<>> >>}}

\* The rows of the bodies the driver is run on.
DriverRowLines ==
  {MdRow(<<githubGitUrl, digest, ChangeCell(sha8a, sha8b)>>),
   MdRow(<<googlesourceUrl, digest, ChangeCell(sha8b, sha8a)>>),
   MdRow(<<otherUrl, digest, ChangeCell(sha8a, sha8b)>>),
   MdRow(<<bothUrl, digest, ChangeCell(sha8a, sha8b)>>)}

\* Pull-request bodies of the events the driver is run on: renovate's bodies
\* with up to MaxRecords digest rows, one with a row of too many cells, one
\* without a table, and one that is not renovate's.
DriverBodies ==
  {BodyOf(<<renovateLine, <<>> >>, headerLine, rows, << <<>>, <<"---">> >>) :
     rows \in SeqsUpTo(DriverRowLines, MaxRecords)}
  \cup {BodyOf(<<renovateLine, <<>> >>, headerLine, <<extraCellRow>>, << <<>>, <<>> >>),
        Join(<<renovateLine, <<>>, proseLine>>, "\n"),
        BodyOf(<<proseLine, <<>> >>, headerLine, <<goodRow>>, << <<>>, <<>> >>)}

\* The events: event.json with or without a pull_request.
Events ==
  {[hasPullRequest |-> TRUE, body |-> b] : b \in DriverBodies}
  \cup {[hasPullRequest |-> FALSE, body |-> <<>>]}

(***************************************************************************)
(* State                                                                   *)
(***************************************************************************)
VARIABLES
  event,        \* the event payload: hasPullRequest, body
  pc,           \* where run() (or a lone parseTable call) stands
  gitUpdates,   \* what parseTable gave: kind "none" before the call
  idx,          \* number of the record whose render was called last, 0 at first
  description,  \* run()'s description
  render,       \* the current call of getGitHistoryDescription
  tempDirs,     \* the temporary directories that exist
  dirCount,     \* how many temporary directories mkdtempSync has made
  gitCalls,     \* the git invocations issued so far: record, command, outcome
  returned,     \* the texts the render calls have returned so far, in order
  requests,     \* the bodies of the comment-creation requests issued
  comments,     \* the bodies of the comments created
  failed        \* core.setFailed was called

vars ==
  <<event, pc, gitUpdates, idx, description, render, tempDirs, dirCount,
    gitCalls, returned, requests, comments, failed>>

noUpdates == [kind |-> "none", val |-> <<>>]

idleRender ==
  [at |-> "idle", url |-> <<>>, oldSha |-> <<>>, newSha |-> <<>>, tempDir |-> 0,
   oldShortSha |-> <<>>, newShortSha |-> <<>>, oldLongSha |-> <<>>,
   newLongSha |-> <<>>, result |-> <<>>]

InitRest ==
  /\ gitUpdates = noUpdates
  /\ idx = 0
  /\ description = <<>>
  /\ render = idleRender
  /\ tempDirs = {}
  /\ dirCount = 0
  /\ gitCalls = <<>>
  /\ returned = <<>>
  /\ requests = <<>>
  /\ comments = <<>>
  /\ failed = FALSE

(***************************************************************************)
(* parseTable called on its own.                                           *)
(***************************************************************************)
InitParse ==
  /\ event \in {[hasPullRequest |-> TRUE, body |-> b] : b \in ParseBodies}
  /\ pc = "parseTable"
  /\ InitRest

CallParseTable ==
  /\ pc = "parseTable"
  /\ gitUpdates' = parseTable(event.body)
  /\ pc' = "parsed"
  /\ UNCHANGED <<event, idx, description, render, tempDirs, dirCount, gitCalls,
                 returned, requests, comments, failed>>

NextParse == CallParseTable

SpecParse == InitParse /\ [][NextParse]_vars

(***************************************************************************)
(* run(): the driver, with getGitHistoryDescription step by step.          *)
(***************************************************************************)
\* /renovate(\s|\[bot])/i.test(prBody)
IsRenovate(body) ==
  \E i \in 1..(Len(body) - 1) :
    /\ LowerAtom(body[i]) = "renovate"
    /\ (IsSpace(body[i + 1]) \/ body[i + 1] = "[bot]")

Init ==
  /\ event \in Events
  /\ pc = "start"
  /\ InitRest

\* fs.rmSync(tempDir, {recursive: true, force: true}) in the finally block
KeepTempDir(dirs, dir) == dirs

RemoveTempDir(dirs, dir) == dirs \ {dir}

\* description += fragment
PrependDescription(text, fragment) == fragment \o text

AppendDescription(text, fragment) == text \o fragment

\* One completed git invocation.
GitCall(cmd, arg, ok, out) ==
  [rec |-> idx, cmd |-> cmd, arg |-> arg, ok |-> ok, out |-> out]

\* The call of getGitHistoryDescription for record i: the url normalized, the
\* temporary directory made, git clone started.
CallRender(i) ==
  /\ idx' = i
  /\ dirCount' = dirCount + 1
  /\ tempDirs' = tempDirs \cup {dirCount + 1}
  /\ render' = [idleRender EXCEPT !.at = "clone",
                                  !.url = NormalizeUrl(gitUpdates'.val[i].url),
                                  !.oldSha = gitUpdates'.val[i].oldSha,
                                  !.newSha = gitUpdates'.val[i].newSha,
                                  !.tempDir = dirCount + 1]

\* The call ends with `return msg`: the finally block runs, the text goes to
\* the caller.
ReturnText(msg) ==
  /\ render' = [render EXCEPT !.at = "returned", !.result = msg]
  /\ tempDirs' = RemoveTempDir(tempDirs, render.tempDir)
  /\ returned' = Append(returned, msg)

\* The call ends with an exception no catch block of it handles: the finally
\* block runs, the exception goes to the caller.
ThrowError ==
  /\ render' = [render EXCEPT !.at = "threw"]
  /\ tempDirs' = RemoveTempDir(tempDirs, render.tempDir)
  /\ UNCHANGED returned

\* The call goes on to its next git invocation.
GoOn(r) ==
  /\ render' = r
  /\ UNCHANGED <<tempDirs, returned>>

driverVars == <<event, pc, gitUpdates, idx, description, dirCount, requests, comments, failed>>

--------------------------------------------------------------------------
\* run() up to its first await that waits for something.

RunNoPullRequest ==
  /\ pc = "start"
  /\ ~event.hasPullRequest
  /\ failed' = TRUE
  /\ pc' = "done"
  /\ UNCHANGED <<event, gitUpdates, idx, description, render, tempDirs, dirCount,
                 gitCalls, returned, requests, comments>>

RunNotRenovate ==
  /\ pc = "start"
  /\ event.hasPullRequest
  /\ ~IsRenovate(event.body)
  /\ pc' = "done"
  /\ UNCHANGED <<event, gitUpdates, idx, description, render, tempDirs, dirCount,
                 gitCalls, returned, requests, comments, failed>>

RunNoUpdates ==
  /\ pc = "start"
  /\ event.hasPullRequest
  /\ IsRenovate(event.body)
  /\ parseTable(event.body).kind = "null"
  /\ gitUpdates' = parseTable(event.body)
  /\ pc' = "done"
  /\ UNCHANGED <<event, idx, description, render, tempDirs, dirCount,
                 gitCalls, returned, requests, comments, failed>>

RunParseThrows ==
  /\ pc = "start"
  /\ event.hasPullRequest
  /\ IsRenovate(event.body)
  /\ parseTable(event.body).kind = "throw"
  /\ gitUpdates' = parseTable(event.body)
  /\ failed' = TRUE
  /\ pc' = "done"
  /\ UNCHANGED <<event, idx, description, render, tempDirs, dirCount,
                 gitCalls, returned, requests, comments>>

\* No record: the loop body never runs and the comment is requested at once.
RunNoRecords ==
  /\ pc = "start"
  /\ event.hasPullRequest
  /\ IsRenovate(event.body)
  /\ parseTable(event.body).kind = "ok"
  /\ Len(parseTable(event.body).val) = 0
  /\ gitUpdates' = parseTable(event.body)
  /\ requests' = Append(requests, description)
  /\ pc' = "posting"
  /\ UNCHANGED <<event, idx, description, render, tempDirs, dirCount,
                 gitCalls, returned, comments, failed>>

RunFirstRender ==
  /\ pc = "start"
  /\ event.hasPullRequest
  /\ IsRenovate(event.body)
  /\ parseTable(event.body).kind = "ok"
  /\ Len(parseTable(event.body).val) > 0
  /\ gitUpdates' = parseTable(event.body)
  /\ CallRender(1)
  /\ pc' = "rendering"
  /\ UNCHANGED <<event, description, gitCalls, returned, requests, comments, failed>>

--------------------------------------------------------------------------
\* getGitHistoryDescription, one action per outcome of each git invocation.

CloneFails ==
  /\ pc = "rendering" /\ render.at = "clone"
  /\ \E error \in GitErrors :
       /\ gitCalls' = Append(gitCalls, GitCall("clone", render.url, FALSE, error))
       /\ ReturnText(FailedToCloneMsg(render.url, error))
  /\ UNCHANGED driverVars

CloneSucceeds ==
  /\ pc = "rendering" /\ render.at = "clone"
  /\ gitCalls' = Append(gitCalls, GitCall("clone", render.url, TRUE, <<>>))
  /\ GoOn([render EXCEPT !.at = "shortOld"])
  /\ UNCHANGED driverVars

ShortOldFails ==
  /\ pc = "rendering" /\ render.at = "shortOld"
  /\ \E error \in GitErrors :
       gitCalls' = Append(gitCalls, GitCall("rev-parse --short", render.oldSha, FALSE, error))
  /\ ThrowError
  /\ UNCHANGED driverVars

ShortOldSucceeds ==
  /\ pc = "rendering" /\ render.at = "shortOld"
  /\ LET out == RevParseShortOut(render.oldSha)
     IN /\ gitCalls' = Append(gitCalls, GitCall("rev-parse --short", render.oldSha, TRUE, out))
        /\ GoOn([render EXCEPT !.at = "shortNew", !.oldShortSha = TrimEnd(out)])
  /\ UNCHANGED driverVars

ShortNewFails ==
  /\ pc = "rendering" /\ render.at = "shortNew"
  /\ \E error \in GitErrors :
       gitCalls' = Append(gitCalls, GitCall("rev-parse --short", render.newSha, FALSE, error))
  /\ ThrowError
  /\ UNCHANGED driverVars

ShortNewSucceeds ==
  /\ pc = "rendering" /\ render.at = "shortNew"
  /\ LET out == RevParseShortOut(render.newSha)
     IN /\ gitCalls' = Append(gitCalls, GitCall("rev-parse --short", render.newSha, TRUE, out))
        /\ GoOn([render EXCEPT !.at = "longOld", !.newShortSha = TrimEnd(out)])
  /\ UNCHANGED driverVars

LongOldFails ==
  /\ pc = "rendering" /\ render.at = "longOld"
  /\ \E error \in GitErrors :
       /\ gitCalls' = Append(gitCalls, GitCall("rev-parse", render.oldSha, FALSE, error))
       /\ ReturnText(FailedLongShaMsg(render.oldSha, error))
  /\ UNCHANGED driverVars

LongOldSucceeds ==
  /\ pc = "rendering" /\ render.at = "longOld"
  /\ LET out == RevParseOut(render.oldSha)
     IN /\ gitCalls' = Append(gitCalls, GitCall("rev-parse", render.oldSha, TRUE, out))
        /\ GoOn([render EXCEPT !.at = "longNew", !.oldLongSha = TrimEnd(out)])
  /\ UNCHANGED driverVars

LongNewFails ==
  /\ pc = "rendering" /\ render.at = "longNew"
  /\ \E error \in GitErrors :
       gitCalls' = Append(gitCalls, GitCall("rev-parse", render.newSha, FALSE, error))
  /\ ThrowError
  /\ UNCHANGED driverVars

LongNewSucceeds ==
  /\ pc = "rendering" /\ render.at = "longNew"
  /\ LET out == RevParseOut(render.newSha)
     IN /\ gitCalls' = Append(gitCalls, GitCall("rev-parse", render.newSha, TRUE, out))
        /\ GoOn([render EXCEPT !.at = "log", !.newLongSha = TrimEnd(out)])
  /\ UNCHANGED driverVars

\* The range handed to git log.
LogRange(r) == r.oldLongSha \o <<"..">> \o r.newLongSha

LogFails ==
  /\ pc = "rendering" /\ render.at = "log"
  /\ \E error \in GitErrors :
       /\ gitCalls' = Append(gitCalls, GitCall("log", LogRange(render), FALSE, error))
       /\ ReturnText(FailedToGetGitLogMsg(error))
  /\ UNCHANGED driverVars

LogSucceeds ==
  /\ pc = "rendering" /\ render.at = "log"
  /\ \E out \in LogOutputs :
       /\ gitCalls' = Append(gitCalls, GitCall("log", LogRange(render), TRUE, out))
       /\ ReturnText(ResultString(render, TrimEnd(out)))
  /\ UNCHANGED driverVars

--------------------------------------------------------------------------
\* run() after a call of getGitHistoryDescription has ended.

RunNextRender ==
  /\ pc = "rendering" /\ render.at = "returned"
  /\ idx < Len(gitUpdates.val)
  /\ description' = AppendDescription(description, render.result)
  /\ UNCHANGED gitUpdates
  /\ CallRender(idx + 1)
  /\ UNCHANGED <<event, pc, gitCalls, returned, requests, comments, failed>>

RunRequestComment ==
  /\ pc = "rendering" /\ render.at = "returned"
  /\ idx = Len(gitUpdates.val)
  /\ description' = AppendDescription(description, render.result)
  /\ requests' = Append(requests, description')
  /\ pc' = "posting"
  /\ UNCHANGED <<event, gitUpdates, idx, render, tempDirs, dirCount, gitCalls,
                 returned, comments, failed>>

RunRenderThrew ==
  /\ pc = "rendering" /\ render.at = "threw"
  /\ failed' = TRUE
  /\ pc' = "done"
  /\ UNCHANGED <<event, gitUpdates, idx, description, render, tempDirs, dirCount,
                 gitCalls, returned, requests, comments>>

CommentCreated ==
  /\ pc = "posting"
  /\ comments' = Append(comments, requests[Len(requests)])
  /\ pc' = "done"
  /\ UNCHANGED <<event, gitUpdates, idx, description, render, tempDirs, dirCount,
                 gitCalls, returned, requests, failed>>

CommentRequestFails ==
  /\ pc = "posting"
  /\ failed' = TRUE
  /\ pc' = "done"
  /\ UNCHANGED <<event, gitUpdates, idx, description, render, tempDirs, dirCount,
                 gitCalls, returned, requests, comments>>

Next ==
  \/ RunNoPullRequest
  \/ RunNotRenovate
  \/ RunNoUpdates
  \/ RunParseThrows
  \/ RunNoRecords
  \/ RunFirstRender
  \/ CloneFails
  \/ CloneSucceeds
  \/ ShortOldFails
  \/ ShortOldSucceeds
  \/ ShortNewFails
  \/ ShortNewSucceeds
  \/ LongOldFails
  \/ LongOldSucceeds
  \/ LongNewFails
  \/ LongNewSucceeds
  \/ LogFails
  \/ LogSucceeds
  \/ RunNextRender
  \/ RunRequestComment
  \/ RunRenderThrew
  \/ CommentCreated
  \/ CommentRequestFails

Spec == Init /\ [][Next]_vars

(***************************************************************************)
(* Properties of parseTable (specification SpecParse).                     *)
(***************************************************************************)
\* The header occurs in the body, letter case apart.
HasHeader(body) ==
  \E i \in 0..(Len(body) - Len(headerText)) :
    \A k \in 1..Len(headerText) : LowerAtom(body[i + k]) = LowerAtom(headerText[k])

\* The cell of a data row in the column the header row names `name`: the last
\* such column the row has a cell for; Undefined when there is none.
CellOf(header, row, name) ==
  LET cols == {i \in 1..Min(Len(header), Len(row)) : ToLowerCase(header[i]) = <<name>>}
  IN IF cols = {} THEN Undefined
     ELSE Some(row[CHOOSE i \in cols : \A j \in cols : j <= i])

\* The pairs of hashes of 7 to 40 hex digits a change cell holds between
\* back-ticks around " -> ", each with the position where it starts.
ShaPairs(change) ==
  UNION {UNION {{[at |-> p, old |-> Sub(change, p + 1, p + m),
                  new |-> Sub(change, p + m + 6, p + m + 5 + n)] :
                   n \in {n \in MinShaLen..MaxShaLen :
                            /\ p + m + 6 + n <= Len(change)
                            /\ change[p + m + 6 + n] = backtick
                            /\ \A k \in 1..n : IsHex(change[p + m + 5 + k])}} :
                 m \in {m \in MinShaLen..MaxShaLen :
                          /\ p + m + 5 <= Len(change)
                          /\ change[p + m + 1] = backtick
                          /\ Sub(change, p + m + 2, p + m + 4) = <<" ", "->", " ">>
                          /\ change[p + m + 5] = backtick
                          /\ \A k \in 1..m : IsHex(change[p + k])}} :
           p \in {p \in 1..Len(change) : change[p] = backtick}}

\* A data row qualifies: update cell digest, package and change cells not
\* empty, a pair of hashes in the change cell.
Qualifies(header, row) ==
  /\ CellOf(header, row, "update") = Some(digest)
  /\ IsDefined(CellOf(header, row, "package"))
  /\ Len(CellOf(header, row, "package")[1]) > 0
  /\ IsDefined(CellOf(header, row, "change"))
  /\ ShaPairs(CellOf(header, row, "change")[1]) # {}

\* The record of a qualifying row.
RecordOf(header, row) ==
  LET pairs == ShaPairs(CellOf(header, row, "change")[1])
      first == CHOOSE x \in pairs : \A y \in pairs : x.at <= y.at
  IN [url |-> CellOf(header, row, "package")[1], oldSha |-> first.old, newSha |-> first.new]

\* The records of the qualifying rows among the given data rows, in row order.
RECURSIVE RecordsOf(_, _)
RecordsOf(header, rows) ==
  IF Len(rows) = 0 THEN <<>>
  ELSE (IF Qualifies(header, rows[1]) THEN <<RecordOf(header, rows[1])>> ELSE <<>>)
       \o RecordsOf(header, Tail(rows))

\* The records expected of a body that holds the header.
ExpectedRecords(body) ==
  RecordsOf(TableHeader(TableRows(body)), TableData(TableRows(body)))

\* C6: parseTable returns null exactly when the body holds no occurrence of
\* the header (letter case apart), and a sequence whenever it holds one.
C6_NullIffNoHeader ==
  pc = "parsed" =>
    /\ (gitUpdates.kind = "null") <=> ~HasHeader(event.body)
    /\ HasHeader(event.body) => gitUpdates.kind = "ok"

C7_WitnessPin ==
  /\ pc = "parsed"
  /\ gitUpdates.kind = "ok"
  /\ Len(gitUpdates.val) = 1
  /\ LET tableRows == TableRows(event.body)
     IN \E i \in 1..Len(TableData(tableRows)) :
          CellOf(TableHeader(tableRows), TableData(tableRows)[i], "update") = Some(<<"pin">>)

\* C8: parseTable does not throw on defective rows: whenever the body holds
\* the header, the call returns the records of the rows that qualify, the
\* defective rows dropped and cells beyond the header's columns ignored.
C8_NoThrowOnDefectiveRows ==
  (pc = "parsed" /\ HasHeader(event.body)) =>
    /\ gitUpdates.kind = "ok"
    /\ gitUpdates.val = ExpectedRecords(event.body)

\* The position (counted from 0) where the header first occurs in the body,
\* letter case apart.
HeaderAt(body) ==
  CHOOSE i \in 0..(Len(body) - Len(headerText)) :
    /\ OccursAt(ToLowerCase(body), ToLowerCase(headerText), i)
    /\ \A j \in 0..(i - 1) : ~OccursAt(ToLowerCase(body), ToLowerCase(headerText), j)

\* The text from the header up to the first blank line (two newlines) that
\* follows it, or up to the end of the body when no blank line follows.
TextFromHeader(body) ==
  LET start == HeaderAt(body)
      blanks == {j \in start..(Len(body) - 2) : body[j + 1] = "\n" /\ body[j + 2] = "\n"}
      end == IF blanks = {} THEN Len(body)
             ELSE CHOOSE j \in blanks : \A k \in blanks : j <= k
  IN Sub(body, start + 1, end)

\* The cells of the header line.
HeaderLineCells(body) == SplitCells(Split(TextFromHeader(body), "\n")[1])

\* The lines after the header line and before the first blank line that
\* follows the header.
LinesAfterHeader(body) == Tail(Split(TextFromHeader(body), "\n"))

\* The record comes from one of the given lines, read under the given header.
ComesFrom(record, header, lines) ==
  \E n \in 1..Len(lines) :
    /\ Qualifies(header, SplitCells(lines[n]))
    /\ RecordOf(header, SplitCells(lines[n])) = record

\* C11: for every body that holds the header, with or without a blank line
\* after it, every record parseTable returns comes from a line after the
\* header line and before the first blank line that follows the header; the
\* text before the header and the text after that blank line give no record.
C11_TableBoundary ==
  (pc = "parsed" /\ gitUpdates.kind = "ok") =>
    \A k \in 1..Len(gitUpdates.val) :
      ComesFrom(gitUpdates.val[k], HeaderLineCells(event.body),
                LinesAfterHeader(event.body))

(***************************************************************************)
(* Properties of getGitHistoryDescription and run() (specification Spec).  *)
(***************************************************************************)
\* The render call in progress has not ended yet.
InFlight == render.at \in {"clone", "shortOld", "shortNew", "longOld", "longNew", "log"}

\* The render call made last has ended, by return or by exception.
Ended == render.at \in {"returned", "threw"}

\* The positions in gitCalls of the git invocations made for record i.
CallsOf(i) == {k \in 1..Len(gitCalls) : gitCalls[k].rec = i}

\* Some git invocation made for record i failed.
Unresolvable(i) == \E k \in CallsOf(i) : ~gitCalls[k].ok

\* The reference of record i without one trailing "/" and, after that, without
\* one trailing ".git".
RepoUrl(i) ==
  LET ref == gitUpdates.val[i].url
      a == IF Len(ref) > 0 /\ ref[Len(ref)] = "/" THEN Sub(ref, 1, Len(ref) - 1) ELSE ref
  IN IF Len(a) > 0 /\ a[Len(a)] = ".git" THEN Sub(a, 1, Len(a) - 1) ELSE a

\* C1: a call of getGitHistoryDescription never ends by an exception, whatever
\* git invocations fail: it ends by returning a text.
C1_RenderNeverThrows == Ended => render.at = "returned"

\* C2: when a call of getGitHistoryDescription has ended, by return or by
\* exception, its temporary directory no longer exists; the only temporary
\* directory that ever exists is that of the call in progress.
C2_TempDirRemoved ==
  /\ Ended => render.tempDir \notin tempDirs
  /\ \A d \in tempDirs : InFlight /\ d = render.tempDir

\* C2 witness: a call that ended by an exception of an uncaught git
\* invocation, its directory made and gone.
C2_Witness ==
  /\ render.at = "threw"
  /\ render.tempDir = dirCount
  /\ dirCount > 0
  /\ render.tempDir \notin tempDirs

\* One of the three explanatory lines.
IsFailureLine(text) ==
  /\ Len(text) > 0
  /\ text[1] \in {"Failed to clone ", "Failed to get long sha for ", "Failed to get git log: "}

\* C3: a record that cannot be resolved (a git invocation for it fails) does
\* not stop the run: when run() is over, every record was rendered, the
\* comment was requested with the record's explanatory line in it, and the
\* run is marked failed only if the comment request itself failed.
C3_FailureIsolation ==
  (pc = "done" /\ gitUpdates.kind = "ok") =>
    \A i \in 1..Len(gitUpdates.val) :
      Unresolvable(i) =>
        /\ idx = Len(gitUpdates.val)
        /\ Len(returned) = Len(gitUpdates.val)
        /\ IsFailureLine(returned[i])
        /\ Len(requests) = 1
        /\ failed => comments = <<>>

\* C4: when git clone fails for a record, the call returns exactly
\* "Failed to clone {repoUrl}: {error}" and no other git invocation is made
\* for that record.
C4_CloneFailure ==
  \A k \in 1..Len(gitCalls) :
    (gitCalls[k].cmd = "clone" /\ ~gitCalls[k].ok) =>
      LET i == gitCalls[k].rec
      IN /\ CallsOf(i) = {k}
         /\ i = idx => render.at = "returned"
         /\ Len(returned) >= i
         /\ returned[i] = <<"Failed to clone ">> \o RepoUrl(i) \o <<": ">> \o gitCalls[k].out

\* C4 witness: the clone of a record whose reference ends in ".git/" failed.
C4_Witness ==
  /\ render.at = "returned"
  /\ gitCalls # <<>>
  /\ gitCalls[Len(gitCalls)].cmd = "clone"
  /\ ~gitCalls[Len(gitCalls)].ok
  /\ gitUpdates.val[idx].url = githubGitUrl

\* C5: when the clone succeeded and a rev-parse of oldHash fails, the call
\* returns "Failed to get long sha for {oldHash}: {error}" and no git log is
\* invoked for the record.
C5_OldShaFailure ==
  \A k \in 1..Len(gitCalls) :
    (/\ gitCalls[k].cmd \in {"rev-parse --short", "rev-parse"}
     /\ gitCalls[k].arg = gitUpdates.val[gitCalls[k].rec].oldSha
     /\ ~gitCalls[k].ok) =>
      LET i == gitCalls[k].rec
      IN /\ Len(returned) >= i
         /\ returned[i] = <<"Failed to get long sha for ">> \o gitUpdates.val[i].oldSha
                            \o <<": ">> \o gitCalls[k].out
         /\ \A j \in CallsOf(i) : gitCalls[j].cmd # "log"

\* The trimmed output of the successful invocation `cmd arg` for record i.
OutputOf(i, cmd, arg) ==
  LET k == CHOOSE k \in CallsOf(i) :
             gitCalls[k].cmd = cmd /\ gitCalls[k].arg = arg /\ gitCalls[k].ok
  IN TrimEnd(gitCalls[k].out)

\* The full hashes of the commits a log output lists: the first word of each
\* line that is not empty.
FullHashes(logOut) ==
  LET lines == Split(logOut, "\n")
  IN {Split(lines[n], " ")[1] : n \in {n \in 1..Len(lines) : Len(lines[n]) > 0}}

\* How often the atom occurs in the text.
Count(text, atom) == Cardinality({n \in 1..Len(text) : text[n] = atom})

\* The fragment of record i, rendered with success, has the links of its host.
HostLinksOf(i) ==
  LET url == RepoUrl(i)
      oldLong == OutputOf(i, "rev-parse", gitUpdates.val[i].oldSha)
      newLong == OutputOf(i, "rev-parse", gitUpdates.val[i].newSha)
      logOut == OutputOf(i, "log", oldLong \o <<"..">> \o newLong)
      text == returned[i]
  IN IF \E n \in 1..Len(url) : url[n] = "github.com"
     THEN /\ Includes(text, <<"](">> \o url \o <<"/compare/">> \o oldLong \o <<"...">>
                              \o newLong \o <<")">>)
          /\ \A h \in FullHashes(logOut) :
               Includes(text, <<"](">> \o url \o <<"/commit/">> \o h \o <<") ">>)
          /\ Count(text, "](") = 1 + Cardinality(FullHashes(logOut))
     ELSE IF \E n \in 1..Len(url) : url[n] = "googlesource.com"
     THEN /\ Includes(text, <<"](">> \o url \o <<"/+log/">> \o oldLong \o <<"..">>
                              \o newLong \o <<")">>)
          /\ \A h \in FullHashes(logOut) :
               Includes(text, <<"](">> \o url \o <<"/+/">> \o h \o <<") ">>)
          /\ Count(text, "](") = 1 + Cardinality(FullHashes(logOut))
     ELSE /\ Count(text, "](") = 0
          /\ Includes(text, url \o <<" ">> \o gitUpdates.val[i].oldSha \o <<"..">>
                              \o gitUpdates.val[i].newSha)

\* The render of record i succeeded: its git log succeeded.
Succeeded(i) == \E k \in CallsOf(i) : gitCalls[k].cmd = "log" /\ gitCalls[k].ok

\* C9: a successful render links the range and every commit in the way of the
\* host: github.com first (/compare/{oldLong}...{newLong}, /commit/{hash}),
\* else googlesource.com (/+log/{oldLong}..{newLong}, /+/{hash}), else no link
\* but the plain text "{repoUrl} {oldHash}..{newHash}".
C9_HostFormatting ==
  (render.at = "returned" /\ Succeeded(idx)) => HostLinksOf(idx)

\* C9 witness: a successful render, with commits, of a reference that holds
\* both host markers.
C9_Witness ==
  /\ render.at = "returned"
  /\ Succeeded(idx)
  /\ gitUpdates.val[idx].url = bothUrl
  /\ FullHashes(OutputOf(idx, "log", LogRange(render))) # {}

\* The texts one after the other.
RECURSIVE Concat(_)
Concat(texts) == IF Len(texts) = 0 THEN <<>> ELSE texts[1] \o Concat(Tail(texts))

\* C10: the records are rendered one at a time in table order (the call in
\* progress is that of record idx, every record before it has returned, the
\* git invocations are in record order), the comment is requested at most
\* once, only after every render has returned, and its body is the texts the
\* renders returned, in that order.
C10_SequentialInOrder ==
  /\ Len(requests) <= 1
  /\ Len(comments) <= Len(requests)
  /\ InFlight => Len(returned) = idx - 1
  /\ (InFlight \/ Ended) =>
       /\ render.oldSha = gitUpdates.val[idx].oldSha
       /\ render.newSha = gitUpdates.val[idx].newSha
       /\ render.url = RepoUrl(idx)
  /\ \A k \in 1..(Len(gitCalls) - 1) : gitCalls[k].rec <= gitCalls[k + 1].rec
  /\ requests # <<>> =>
       /\ ~InFlight
       /\ Len(returned) = Len(gitUpdates.val)
       /\ requests[1] = Concat(returned)
  /\ \A n \in 1..Len(comments) : comments[n] = requests[n]

\* C10 witness: the comment of a run of two records whose renders returned
\* different texts was created.
C10_Witness ==
  /\ Len(comments) = 1
  /\ Len(returned) = 2
  /\ returned[1] # returned[2]
  /\ comments[1] = returned[1] \o returned[2]

====
